---- MODULE Spec2Model ----
(***************************************************************************)
(* Message-graph reconstruction and transformation engine of               *)
(* telegram_to_mattermost/migrate.py (class TelegramMattermostMigrator):   *)
(* _build_reply_structure with its thread-root walk _find_top_parent,      *)
(* _transform_message, _attach_replies and _convert_messages.              *)
(*                                                                         *)
(* A Python dict is a function whose DOMAIN is the set of keys present, so *)
(* `"k" in d` is "k" \in DOMAIN d.  Python's None for an identifier is the *)
(* integer NoId.  A naive local ISO timestamp is its number of seconds.    *)
(***************************************************************************)
EXTENDS Integers, Sequences, FiniteSets, TLC

VARIABLES
    chat_type,      \* self.config.chat_type
    user_keys,      \* list(self.config.users): its keys, in the file's order
    timezone,       \* self.config.timezone
    mentions,       \* self.config.mentions
    messages,       \* the archive's message list
    pc,             \* position of the run
    replies,        \* the Thread Map returned by _build_reply_structure
    output_lines,   \* the list returned by _convert_messages
    attachments,    \* self.attachments (the Attachment Set)
    transformed,    \* what one call of _transform_message gave
    reply_map,      \* _find_top_parent: reply_map (the Reply Index)
    walk_from,      \* _find_top_parent: msg_id of the outermost call
    msg_id,         \* _find_top_parent: msg_id of the current call
    visited,        \* _find_top_parent: visited
    readded,        \* some visited.add() was given an identifier already in it
    depth           \* _find_top_parent: Python frames in use, the call's included

vars == <<chat_type, user_keys, timezone, mentions,
          messages, pc, replies, output_lines, attachments,
          transformed, reply_map, walk_from, msg_id, visited, readded, depth>>

(***************************************************************************)
(* Bounds of the model.                                                    *)
(***************************************************************************)
MaxLen == 3     \* longest message list
MaxId == 3      \* largest identifier of a Reply Index of the walk
MaxFrames == 4  \* most frames in use by the callers of the walk

(***************************************************************************)
(* Dict helpers.                                                           *)
(***************************************************************************)
EmptyDict == [k \in {} |-> 0]
Opt(key, present, val) == IF present THEN key :> val ELSE EmptyDict
Pop(d, keys) == [k \in DOMAIN d \ keys |-> d[k]]
Put(d, key, val) == [k \in DOMAIN d \cup {key} |-> IF k = key THEN val ELSE d[k]]
Has(d, key) == key \in DOMAIN d
Range(s) == {s[k] : k \in DOMAIN s}
NoId == -1

(***************************************************************************)
(* Configuration: the identity map and the destination of the tests' mock  *)
(* configuration and the class-level kind mapping.  A Python dict keeps    *)
(* its keys in insertion order, here the order of the configuration file:  *)
(* user_keys is list(config.users), and its values follow that order.      *)
(***************************************************************************)
users == [user123 |-> "abc", user789 |-> "ghi", user456 |-> "def"]
UserValues == [k \in DOMAIN user_keys |-> users[user_keys[k]]]
import_into == [team |-> "example", channel |-> "town square"]

\* The orders a configuration file can list the identity map in
UserOrders ==
    {order \in [1..Cardinality(DOMAIN users) -> DOMAIN users] :
        Range(order) = DOMAIN users}

\* The order of the tests' direct-chat configuration
MockUserKeys == <<"user123", "user456", "user789">>

(***************************************************************************)
(* The zones: the default "UTC" and the "Europe/Busingen" of the timezone  *)
(* tests, whose clock is one hour east of UTC in standard time and two in  *)
(* summer time.  Summer time ran in 1941 and 1942, and runs every year     *)
(* since 1981 between the last Sunday of March and the last Sunday of      *)
(* September (of October since 1996).  A naive timestamp is the number of  *)
(* seconds from 1970-01-01T00:00:00 on the local clock; day 0 was a        *)
(* Thursday.  The local hour a switch skips keeps the offset of before the *)
(* switch, and the hour it repeats is read as its first pass (fold = 0),   *)
(* so both switches show on the local clock at 03:00 (02:00 in the 1940s). *)
(***************************************************************************)
TimeZones == {"UTC", "Europe/Busingen"}

IsLeap(year) == (year % 4 = 0 /\ year % 100 # 0) \/ year % 400 = 0

DaysIn(year) == IF IsLeap(year) THEN 366 ELSE 365

\* The year holding a day and that year's first day, searched from a year
RECURSIVE YearOfDay(_, _, _)
YearOfDay(year, first, day) ==
    IF day < first + DaysIn(year)
    THEN [year |-> year, first |-> first]
    ELSE YearOfDay(year + 1, first + DaysIn(year), day)

\* The last Sunday not later than a day
LastSunday(day) == day - ((day + 4) % 7)

SummerTime(tg_time) ==
    LET day == tg_time \div 86400
        hour == (tg_time % 86400) \div 3600
        y == YearOfDay(1970, 0, day)
        leap == IF IsLeap(y.year) THEN 1 ELSE 0
        march == LastSunday(y.first + 89 + leap)
        autumn == LastSunday(y.first + leap
                             + (IF y.year <= 1995 THEN 272 ELSE 303))
    IN  \/ /\ y.year >= 1981
           /\ day > march \/ (day = march /\ hour >= 3)
           /\ day < autumn \/ (day = autumn /\ hour < 3)
        \/ -904428000 <= tg_time /\ tg_time < -891122400
        \/ -872978400 <= tg_time /\ tg_time < -859672800

ZoneOffset(zone, tg_time) ==
    IF zone = "UTC" THEN 0
    ELSE IF SummerTime(tg_time) THEN 7200 ELSE 3600

TG_TO_MM_TYPE ==
    [message |-> "post", personal_chat |-> "direct_chat",
     private_supergroup |-> "channel", public_supergroup |-> "channel",
     private_channel |-> "channel", public_channel |-> "channel"]

VersionLine == [type |-> "version", version |-> 1]

\* The timestamp read as UTC whatever the configured zone
DateToEpochUtc(tg_time) == tg_time * 1000

DateToEpoch(tg_time) == (tg_time - ZoneOffset(timezone, tg_time)) * 1000

(***************************************************************************)
(* The span transformer.  TLA+ values carry no type tag, so the elements   *)
(* of a span list are all functions: the literal string s is [str |-> s],  *)
(* a value that is neither a string nor a dict is [other |-> value], and a *)
(* dict is itself.  A record whose "text" is a list holds the sequence of  *)
(* its elements under "text" and carries the marker key "text_is_list".    *)
(***************************************************************************)
IsStr(elem) == Has(elem, "str")                          \* isinstance(elem, str)
IsDict(elem) == ~Has(elem, "str") /\ ~Has(elem, "other") \* isinstance(elem, dict)
IsList(msg) == Has(msg, "text_is_list")     \* isinstance(msg.get("text"), list)

\* Python's `a or b` on strings
Or(a, b) == IF a # "" THEN a ELSE b

\* str.lstrip(chars) for one character: every leading occurrence goes
RECURSIVE LStrip(_, _)
LStrip(str, char) ==
    IF Len(str) > 0 /\ SubSeq(str, 1, 1) = char
    THEN LStrip(SubSeq(str, 2, Len(str)), char)
    ELSE str

\* The plain kinds with a kind the rule table does not list among them
TEXT_TYPES_AND_UNKNOWN ==
    {"link", "bot_command", "email", "text_link", "phone", "hashtag", "cashtag",
     "bank_card", "unknown_format"}

TEXT_TYPES_TO_CONVERT_TO_PLAIN_TEXT ==
    {"link", "bot_command", "email", "text_link", "phone", "hashtag", "cashtag",
     "bank_card"}

TransformBasicText(elem) ==
    IF elem.type \in TEXT_TYPES_TO_CONVERT_TO_PLAIN_TEXT THEN elem.text ELSE ""

\* The grave accent (U+0060) cannot be written inside a TLA+ string: in every
\* string of the model the apostrophe stands for it.  No input text holds one.
Backtick == "'"

\* The format table with italic written with asterisks
format_map_stars ==
    [code |-> <<Backtick, Backtick>>, bold |-> <<"**", "**">>, italic |-> <<"*", "*">>,
     underline |-> <<"**_", "_**">>, strikethrough |-> <<"~~", "~~">>]

format_map ==
    [code |-> <<Backtick, Backtick>>, bold |-> <<"**", "**">>, italic |-> <<"_", "_">>,
     underline |-> <<"**_", "_**">>, strikethrough |-> <<"~~", "~~">>]

TransformFormatting(elem) ==
    IF elem.type \in DOMAIN format_map
    THEN format_map[elem.type][1] \o elem.text \o format_map[elem.type][2]
    ELSE ""

TransformBlocks(elem) ==
    IF elem.type = "pre"
    THEN "\n" \o Backtick \o Backtick \o Backtick \o "\n" \o elem.text
         \o "\n" \o Backtick \o Backtick \o Backtick \o "\n"
    ELSE IF elem.type = "blockquote" THEN "\n> " \o elem.text \o "\n"
    ELSE ""

\* line 118: the ValueError of a mention_name without user_id
MentionRaises(elem) == elem.type = "mention_name" /\ ~Has(elem, "user_id")

\* A user mention that falls back to the span's text when nobody is mapped
TransformMentionsNamed(elem) ==
    IF elem.type = "mention_name"
    THEN LET user_id == "user" \o ToString(elem.user_id) IN
         IF user_id \in DOMAIN users THEN "@" \o users[user_id] ELSE elem.text
    ELSE IF elem.type = "mention"
    THEN LET mention_text == LStrip(elem.text, "@") IN
         IF mentions # EmptyDict /\ mention_text \in DOMAIN mentions
         THEN "@" \o mentions[mention_text]
         ELSE elem.text
    ELSE ""

\* A name mention that gives the stripped text when the map has no entry
TransformMentionsStripped(elem) ==
    IF elem.type = "mention_name"
    THEN LET user_id == "user" \o ToString(elem.user_id) IN
         IF user_id \in DOMAIN users THEN "@" \o users[user_id] ELSE ""
    ELSE IF elem.type = "mention"
    THEN LET mention_text == LStrip(elem.text, "@") IN
         IF mention_text \in DOMAIN mentions
         THEN "@" \o mentions[mention_text]
         ELSE mention_text
    ELSE ""

\* lines 115-129, for an element that does not make the call raise
TransformMentions(elem) ==
    IF elem.type = "mention_name"
    THEN LET user_id == "user" \o ToString(elem.user_id) IN
         IF user_id \in DOMAIN users THEN "@" \o users[user_id] ELSE ""
    ELSE IF elem.type = "mention"
    THEN LET mention_text == LStrip(elem.text, "@") IN
         IF mentions # EmptyDict /\ mention_text \in DOMAIN mentions
         THEN "@" \o mentions[mention_text]
         ELSE elem.text
    ELSE ""

\* lines 243-275: what one element adds to result
TransformElement(elem) ==
    IF IsStr(elem) THEN elem.str                                    \* 244-246
    ELSE IF ~IsDict(elem) THEN ""                                   \* 248-250
    ELSE IF ~Has(elem, "type") \/ ~Has(elem, "text") THEN ""        \* 252-256
    ELSE IF Or(Or(TransformBasicText(elem), TransformFormatting(elem)),
               TransformBlocks(elem)) = "" /\ MentionRaises(elem)
    THEN ""                                            \* raised, caught at 271
    ELSE Or(Or(Or(TransformBasicText(elem), TransformFormatting(elem)),
               TransformBlocks(elem)),
            TransformMentions(elem))                                \* 260-269

\* _transform_text: "".join(result)
RECURSIVE TransformText(_)
TransformText(text_elements) ==
    IF text_elements = <<>> THEN ""
    ELSE TransformElement(Head(text_elements)) \o TransformText(Tail(text_elements))

\* The sticker glyph taken whenever the record carries one
GetMessageTextGlyphFirst(msg) ==
    IF IsList(msg) THEN TransformText(msg.text)
    ELSE IF Has(msg, "sticker_emoji") THEN msg.sticker_emoji
    ELSE IF Has(msg, "text") THEN msg.text ELSE ""

GetMessageText(msg) ==
    IF IsList(msg) THEN TransformText(msg.text)
    ELSE IF Has(msg, "text") /\ msg.text = "" /\ Has(msg, "sticker_emoji")
    THEN msg.sticker_emoji
    ELSE IF Has(msg, "text") THEN msg.text ELSE ""

(***************************************************************************)
(* _transform_message.  The result is "skip" (return None), "raise" (a     *)
(* KeyError leaves the function) or "ok" with the envelope mm_msg; atts    *)
(* are the paths the call adds to the Attachment Set.  The envelope's      *)
(* content is the dict Python stores under the key msg_type.               *)
(***************************************************************************)
\* lines 286-287: "" stands for the None of TG_TO_MM_TYPE.get
MsgType(msg) ==
    IF chat_type = "direct_chat" THEN "direct_post"
    ELSE IF msg.type \in DOMAIN TG_TO_MM_TYPE THEN TG_TO_MM_TYPE[msg.type]
    ELSE ""

\* Outcome with a record that lacks its date answered by None (a skip)
OutcomeDateSkip(msg) ==
    IF ~Has(msg, "type") THEN "skip"
    ELSE IF MsgType(msg) = "" THEN "skip"
    ELSE IF ~Has(msg, "from_id") THEN "raise"
    ELSE IF msg.from_id \notin DOMAIN users THEN "skip"
    ELSE IF ~Has(msg, "date") THEN "skip"
    ELSE "ok"

\* Outcome without the author check: users[msg["from_id"]] raises KeyError
OutcomeAuthorRaise(msg) ==
    IF ~Has(msg, "type") THEN "skip"
    ELSE IF MsgType(msg) = "" THEN "skip"
    ELSE IF ~Has(msg, "from_id") THEN "raise"
    ELSE IF msg.from_id \notin DOMAIN users THEN "raise"
    ELSE IF ~Has(msg, "date") THEN "raise"
    ELSE "ok"

\* lines 283-313: which way the call leaves before the envelope is complete
Outcome(msg) ==
    IF ~Has(msg, "type") THEN "skip"                   \* line 283
    ELSE IF MsgType(msg) = "" THEN "skip"              \* line 289
    ELSE IF ~Has(msg, "from_id") THEN "raise"          \* line 293, msg["from_id"]
    ELSE IF msg.from_id \notin DOMAIN users THEN "skip" \* line 293
    ELSE IF ~Has(msg, "date") THEN "raise"             \* line 310, msg["date"]
    ELSE "ok"

\* The attachment loop without the sticker exception of line 330
AttachmentPathsAny(msg) ==
    (IF Has(msg, "file") THEN <<msg.file>> ELSE <<>>)
    \o (IF Has(msg, "photo") THEN <<msg.photo>> ELSE <<>>)

\* lines 327-336: the paths of the record that become attachments
AttachmentPaths(msg) ==
    (IF Has(msg, "file") /\ ~(Has(msg, "media_type") /\ msg.media_type = "sticker")
     THEN <<msg.file>> ELSE <<>>)
    \o (IF Has(msg, "photo") THEN <<msg.photo>> ELSE <<>>)

\* The envelope with the channel and team pair in direct mode as well
EnvelopeBoth(msg, msg_type) ==
    [type |-> msg_type,
     id |-> IF Has(msg, "id") THEN msg.id ELSE NoId,
     content |->
        [message |-> GetMessageText(msg),
         user |-> users[msg.from_id],
         create_at |-> DateToEpoch(msg.date),
         edit_at |-> IF Has(msg, "edited") THEN DateToEpoch(msg.edited) ELSE 0,
         channel |-> import_into.channel, team |-> import_into.team]
        @@ (IF chat_type = "direct_chat"
            THEN [channel_members |-> UserValues]
            ELSE EmptyDict)]

\* lines 304-324: the envelope before the attachments are added
Envelope(msg, msg_type) ==
    [type |-> msg_type,
     id |-> IF Has(msg, "id") THEN msg.id ELSE NoId,
     content |->
        [message |-> GetMessageText(msg),
         user |-> users[msg.from_id],
         create_at |-> DateToEpoch(msg.date),
         edit_at |-> IF Has(msg, "edited") THEN DateToEpoch(msg.edited) ELSE 0]
        @@ (IF chat_type = "direct_chat"
            THEN [channel_members |-> UserValues]
            ELSE [channel |-> import_into.channel, team |-> import_into.team])]

\* The call collecting the record's paths before it looks at the record
TransformMessageEager(msg) ==
    IF Outcome(msg) # "ok"
    THEN [status |-> Outcome(msg), atts |-> Range(AttachmentPaths(msg))]
    ELSE LET paths == AttachmentPaths(msg)
             env == Envelope(msg, MsgType(msg))
         IN [status |-> "ok",
             atts |-> Range(paths),
             env |-> IF paths = <<>> THEN env
                     ELSE [env EXCEPT !.content = @ @@
                             [attachments |-> [k \in DOMAIN paths |-> [path |-> paths[k]]],
                              props |-> [attachments |-> <<>>]]]]

TransformMessage(msg) ==
    IF Outcome(msg) # "ok" THEN [status |-> Outcome(msg), atts |-> {}]
    ELSE LET paths == AttachmentPaths(msg)
             env == Envelope(msg, MsgType(msg))
         IN [status |-> "ok",
             atts |-> Range(paths),
             env |-> IF paths = <<>> THEN env
                     ELSE [env EXCEPT !.content = @ @@
                             [attachments |-> [k \in DOMAIN paths |-> [path |-> paths[k]]],
                              props |-> [attachments |-> <<>>]]]]

(***************************************************************************)
(* _attach_replies(msg, replies): the envelope with its replies list, and  *)
(* the paths the transformation of the thread's records adds to the        *)
(* Attachment Set.  An exception inside the loop body is caught there and  *)
(* the reply is left out (lines 383-388).                                  *)
(***************************************************************************)
\* line 353: `if not msg_id` (None and 0 are falsy)
Falsy(id) == id = NoId \/ id = 0

\* A reply stripped of its attachment descriptors as well
ReplyContentBare(reply, msg_type) ==
    LET t == TransformMessage(reply) IN
    IF t.status # "ok" THEN <<>>
    ELSE IF t.env.type # msg_type THEN <<>>
    ELSE <<Pop(t.env.content, {"channel", "team", "attachments", "props"})>>

\* lines 367-380 for one reply: <<>> when it is left out, else <<content>>
ReplyContent(reply, msg_type) ==
    LET t == TransformMessage(reply) IN
    IF t.status # "ok" THEN <<>>                  \* None (368) or raised (383)
    ELSE IF t.env.type # msg_type THEN <<>>       \* transformed[msg_type]: KeyError
    ELSE <<Pop(t.env.content, {"channel", "team"})>>

RECURSIVE ReplyContents(_, _)
ReplyContents(thread, msg_type) ==
    IF thread = <<>> THEN <<>>
    ELSE ReplyContent(Head(thread), msg_type) \o ReplyContents(Tail(thread), msg_type)

RECURSIVE ThreadPaths(_)
ThreadPaths(thread) ==
    IF thread = <<>> THEN {}
    ELSE TransformMessage(Head(thread)).atts \cup ThreadPaths(Tail(thread))

\* lines 347-359: whether the replies list is built at all
HasThread(msg, thread_map) ==
    /\ msg.type \in {"post", "direct_post"}
    /\ ~Falsy(msg.id)
    /\ msg.id \in DOMAIN thread_map

AttachReplies(msg, thread_map) ==
    IF ~HasThread(msg, thread_map) THEN [env |-> msg, atts |-> {}]
    ELSE [env |-> [msg EXCEPT !.content = @ @@
                     [replies |-> ReplyContents(thread_map[msg.id], msg.type)]],
          atts |-> ThreadPaths(thread_map[msg.id])]

(***************************************************************************)
(* _find_top_parent as the recursive function it is, and                   *)
(* _build_reply_structure.  An archive of at most MaxLen messages nests    *)
(* at most MaxLen calls, far from the interpreter's recursion limit; the   *)
(* walk's use of the stack is in the actions of the walk further down.     *)
(***************************************************************************)
RECURSIVE FindTopParent(_, _, _)
FindTopParent(id, map, seen) ==
    IF id \in seen THEN id
    ELSE IF id \in DOMAIN map THEN FindTopParent(map[id], map, seen \cup {id})
    ELSE id

\* lines 436-440: reply_to and message_by_id after the first loop
RECURSIVE ReplyTo(_)
ReplyTo(msgs) ==
    IF msgs = <<>> THEN EmptyDict
    ELSE LET msg == msgs[Len(msgs)]
             before == ReplyTo(SubSeq(msgs, 1, Len(msgs) - 1))
         IN IF Has(msg, "id") /\ Has(msg, "reply_to_message_id")
            THEN Put(before, msg.id, msg.reply_to_message_id)
            ELSE before

MessageById(msgs) ==
    [id \in {msgs[k].id : k \in {j \in DOMAIN msgs : Has(msgs[j], "id")}} |->
        LET last == CHOOSE k \in DOMAIN msgs :
                /\ Has(msgs[k], "id") /\ msgs[k].id = id
                /\ \A j \in DOMAIN msgs : (Has(msgs[j], "id") /\ msgs[j].id = id) => j <= k
        IN msgs[last]]

\* line 447 without its check
ParentAlways(top_parent, message_by_id) == TRUE

\* line 447 asking for a parent that declares no reply target itself
ParentIsRoot(top_parent, message_by_id) ==
    /\ top_parent \in DOMAIN message_by_id
    /\ ~Has(message_by_id[top_parent], "reply_to_message_id")

\* line 447: only add the reply if the parent message exists in the message set
ParentExists(top_parent, message_by_id) == top_parent \in DOMAIN message_by_id

\* The second loop putting each reply in front of its thread's list
RECURSIVE BuildFromPrepend(_, _, _)
BuildFromPrepend(msgs, k, acc) ==
    IF k > Len(msgs) THEN acc
    ELSE LET msg == msgs[k] IN
         IF ~Has(msg, "reply_to_message_id") THEN BuildFromPrepend(msgs, k + 1, acc)
         ELSE LET top_parent == FindTopParent(msg.reply_to_message_id, ReplyTo(msgs), {})
              IN IF ParentExists(top_parent, MessageById(msgs))
                 THEN BuildFromPrepend(msgs, k + 1,
                        Put(acc, top_parent,
                            <<msg>> \o (IF top_parent \in DOMAIN acc THEN acc[top_parent]
                                        ELSE <<>>)))
                 ELSE BuildFromPrepend(msgs, k + 1, acc)

\* lines 443-448: the second loop, from message k on
RECURSIVE BuildFrom(_, _, _)
BuildFrom(msgs, k, acc) ==
    IF k > Len(msgs) THEN acc
    ELSE LET msg == msgs[k] IN
         IF ~Has(msg, "reply_to_message_id") THEN BuildFrom(msgs, k + 1, acc)
         ELSE LET top_parent == FindTopParent(msg.reply_to_message_id, ReplyTo(msgs), {})
              IN IF ParentExists(top_parent, MessageById(msgs))
                 THEN BuildFrom(msgs, k + 1,
                        Put(acc, top_parent,
                            Append(IF top_parent \in DOMAIN acc THEN acc[top_parent]
                                   ELSE <<>>, msg)))
                 ELSE BuildFrom(msgs, k + 1, acc)

BuildReplyStructure(msgs) == BuildFrom(msgs, 1, EmptyDict)

(***************************************************************************)
(* _convert_messages: the loop from message k on.  status is "return" with *)
(* the output lines, or "raise" when a _transform_message call of line 460 *)
(* raised; atts is the Attachment Set as the call leaves it.               *)
(***************************************************************************)
\* line 457
IsService(msg) == Has(msg, "type") /\ msg.type = "service"

\* line 461 without the reply-target test
EmitsAny(status, msg) == status = "ok"

\* line 461: `if transformed and "reply_to_message_id" not in msg`
EmitsRoot(status, msg) == status = "ok" /\ ~Has(msg, "reply_to_message_id")

\* The loop transforming only the records that declare no reply target
RECURSIVE ConvertFromRootsOnly(_, _, _, _, _)
ConvertFromRootsOnly(msgs, thread_map, k, out, atts) ==
    IF k > Len(msgs) THEN [status |-> "return", out |-> out, atts |-> atts]
    ELSE LET msg == msgs[k] IN
         IF IsService(msg) \/ Has(msg, "reply_to_message_id")
         THEN ConvertFromRootsOnly(msgs, thread_map, k + 1, out, atts)
         ELSE LET t == TransformMessage(msg) IN
              IF t.status = "raise"
              THEN [status |-> "raise", out |-> <<>>, atts |-> atts]
              ELSE IF EmitsRoot(t.status, msg)
              THEN LET a == AttachReplies(t.env, thread_map)
                   IN ConvertFromRootsOnly(msgs, thread_map, k + 1, Append(out, a.env),
                                           atts \cup t.atts \cup a.atts)
              ELSE ConvertFromRootsOnly(msgs, thread_map, k + 1, out, atts \cup t.atts)

RECURSIVE ConvertFrom(_, _, _, _, _)
ConvertFrom(msgs, thread_map, k, out, atts) ==
    IF k > Len(msgs) THEN [status |-> "return", out |-> out, atts |-> atts]
    ELSE LET msg == msgs[k] IN
         IF IsService(msg) THEN ConvertFrom(msgs, thread_map, k + 1, out, atts)
         ELSE LET t == TransformMessage(msg) IN
              IF t.status = "raise"
              THEN [status |-> "raise", out |-> <<>>, atts |-> atts]
              ELSE IF EmitsRoot(t.status, msg)
              THEN LET a == AttachReplies(t.env, thread_map)
                   IN ConvertFrom(msgs, thread_map, k + 1, Append(out, a.env),
                                  atts \cup t.atts \cup a.atts)
              ELSE ConvertFrom(msgs, thread_map, k + 1, out, atts \cup t.atts)

ConvertMessages(msgs, thread_map, atts) ==
    ConvertFrom(msgs, thread_map, 1, <<VersionLine>>, atts)

(***************************************************************************)
(* The archives and records the runs start from.  An archive is a list of  *)
(* at most MaxLen records with unique identifiers: the record at position  *)
(* k carries identifier k, a timestamp and the text "m<k>"; each record    *)
(* declares no reply target or any of 0..MaxLen (one that no record        *)
(* carries is dangling); at most one record of an archive deviates from a  *)
(* plain message in the way a Variant names.                               *)
(***************************************************************************)
Txt(k) == "m" \o ToString(k)

PlainRecord(k) ==
    [id |-> k, type |-> "message", date |-> 1000 + k,
     from_id |-> "user123", text |-> Txt(k)]

Variants ==
    {"service", "service_from", "unknown_type", "chat_kind", "no_type",
     "unknown_author", "no_author", "no_date", "no_id", "id0"}

Vary(rec, v) ==
    CASE v = "service" -> Pop([rec EXCEPT !.type = "service"], {"from_id"})
      [] v = "service_from" -> [rec EXCEPT !.type = "service"]
      [] v = "unknown_type" -> [rec EXCEPT !.type = "unknown_type"]
      [] v = "chat_kind" -> [rec EXCEPT !.type = "personal_chat"]
      [] v = "no_type" -> Pop(rec, {"type"})
      [] v = "unknown_author" -> [rec EXCEPT !.from_id = "unknown_user"]
      [] v = "no_author" -> Pop(rec, {"from_id"})
      [] v = "no_date" -> Pop(rec, {"date"})
      [] v = "no_id" -> Pop(rec, {"id"})
      [] v = "id0" -> [rec EXCEPT !.id = 0]

ReplyTargets == {NoId} \cup (0..MaxLen)

WithReply(rec, r) == rec @@ Opt("reply_to_message_id", r # NoId, r)

Archive(n, rs, odd, v) ==
    [k \in 1..n |->
        WithReply(IF k = odd THEN Vary(PlainRecord(k), v) ELSE PlainRecord(k), rs[k])]

\* messages is one of the archives
IsArchive(msgs) ==
    \E n \in 1..MaxLen : \E rs \in [1..n -> ReplyTargets] : \E odd \in 0..n :
        \E v \in IF odd = 0 THEN {"plain"} ELSE Variants :
            msgs = Archive(n, rs, odd, v)

ChatTypes == {"direct_chat", "post"}     \* convert(), lines 614-616

(***************************************************************************)
(* The conversion run of convert(): _build_reply_structure, then           *)
(* _convert_messages.                                                      *)
(***************************************************************************)
NoCall == [status |-> "none", atts |-> {}]

NoWalk ==
    /\ reply_map = EmptyDict /\ walk_from = NoId /\ msg_id = NoId
    /\ visited = {} /\ readded = FALSE

Init ==
    /\ chat_type \in ChatTypes
    /\ user_keys = MockUserKeys
    /\ depth = 0
    /\ timezone = "UTC"
    /\ mentions = EmptyDict
    /\ IsArchive(messages)
    /\ pc = "loaded"
    /\ replies = EmptyDict
    /\ output_lines = <<>>
    /\ attachments = {}
    /\ transformed = NoCall
    /\ NoWalk

Build ==
    /\ pc = "loaded"
    /\ replies' = BuildReplyStructure(messages)
    /\ pc' = "built"
    /\ UNCHANGED <<chat_type, user_keys, timezone, mentions,
                   messages, output_lines, attachments, transformed,
                   reply_map, walk_from, msg_id, visited, readded,
                   depth>>

ConvertReturn ==
    /\ pc = "built"
    /\ LET r == ConvertMessages(messages, replies, attachments) IN
        /\ r.status = "return"
        /\ output_lines' = r.out
        /\ attachments' = r.atts
    /\ pc' = "done"
    /\ UNCHANGED <<chat_type, user_keys, timezone, mentions,
                   messages, replies, transformed,
                   reply_map, walk_from, msg_id, visited, readded,
                   depth>>

ConvertRaise ==
    /\ pc = "built"
    /\ LET r == ConvertMessages(messages, replies, attachments) IN
        /\ r.status = "raise"
        /\ attachments' = r.atts
    /\ pc' = "raised"
    /\ UNCHANGED <<chat_type, user_keys, timezone, mentions,
                   messages, replies, output_lines, transformed,
                   reply_map, walk_from, msg_id, visited, readded,
                   depth>>

Next == Build \/ ConvertReturn \/ ConvertRaise

Spec == Init /\ [][Next]_vars

(***************************************************************************)
(* The conversion run over archives of ordinary messages that carry        *)
(* attachments: the record at position k carries no attachment, the photo  *)
(* "photos/p<k>.jpg", the file "files/f<k>.pdf" or the sticker file        *)
(* "stickers/s<k>.webp", and declares no reply target or any of 1..MaxLen. *)
(***************************************************************************)
AttachmentKinds == {"none", "photo", "file", "sticker"}

WithAttachment(rec, k, a) ==
    rec @@ Opt("photo", a = "photo", "photos/p" \o ToString(k) \o ".jpg")
        @@ Opt("file", a = "file", "files/f" \o ToString(k) \o ".pdf")
        @@ Opt("file", a = "sticker", "stickers/s" \o ToString(k) \o ".webp")
        @@ Opt("media_type", a = "sticker", "sticker")

AttachmentArchive(n, rs, kinds) ==
    [k \in 1..n |-> WithReply(WithAttachment(PlainRecord(k), k, kinds[k]), rs[k])]

IsAttachmentArchive(msgs) ==
    \E n \in 1..MaxLen : \E rs \in [1..n -> {NoId} \cup (1..MaxLen)] :
        \E kinds \in [1..n -> AttachmentKinds] :
            msgs = AttachmentArchive(n, rs, kinds)

InitAttach ==
    /\ chat_type \in ChatTypes
    /\ user_keys = MockUserKeys
    /\ depth = 0
    /\ timezone = "UTC"
    /\ mentions = EmptyDict
    /\ IsAttachmentArchive(messages)
    /\ pc = "loaded"
    /\ replies = EmptyDict
    /\ output_lines = <<>>
    /\ attachments = {}
    /\ transformed = NoCall
    /\ NoWalk

NextAttach == Build \/ ConvertReturn

SpecAttach == InitAttach /\ [][NextAttach]_vars

(***************************************************************************)
(* One call of _transform_message on one record, every optional key of the *)
(* record present or absent independently, with the Attachment Set empty   *)
(* or holding the path of an earlier record.                               *)
(***************************************************************************)
Records ==
    {[text |-> "Test"]
        @@ Opt("id", id # NoId, id)
        @@ Opt("type", type # "", type)
        @@ Opt("from_id", from # "", from)
        @@ Opt("date", date # 0, date)
        @@ Opt("edited", edited # 0, edited)
        @@ Opt("file", file # "", file)
        @@ Opt("media_type", file # "" /\ sticker, "sticker")
        @@ Opt("photo", photo # "", photo) :
     id \in {NoId, 0, 123456},
     type \in {"", "message", "service", "unknown_type", "personal_chat"},
     from \in {"", "user123", "unknown_user"},
     date \in {0, 5001},
     edited \in {0, 7202},
     file \in {"", "files/f.pdf"},
     sticker \in BOOLEAN,
     photo \in {"", "photos/p.jpg"}}

InitTransform ==
    /\ chat_type \in ChatTypes
    /\ user_keys \in UserOrders
    /\ depth = 0
    /\ timezone \in TimeZones
    /\ mentions = EmptyDict
    /\ \E rec \in Records : messages = <<rec>>
    /\ pc = "record"
    /\ replies = EmptyDict
    /\ output_lines = <<>>
    /\ attachments \in {{}, {"files/earlier.pdf"}}
    /\ transformed = NoCall
    /\ NoWalk

\* what the call leaves behind, whichever way it ends
Called ==
    /\ transformed' = TransformMessage(messages[1])
    /\ attachments' = attachments \cup TransformMessage(messages[1]).atts
    /\ pc' = "transformed"
    /\ UNCHANGED <<chat_type, user_keys, timezone, mentions,
                   messages, replies, output_lines,
                   reply_map, walk_from, msg_id, visited, readded,
                   depth>>

TransformOk ==
    /\ pc = "record"
    /\ TransformMessage(messages[1]).status = "ok"
    /\ Called

TransformSkip ==
    /\ pc = "record"
    /\ TransformMessage(messages[1]).status = "skip"
    /\ Called

TransformRaise ==
    /\ pc = "record"
    /\ TransformMessage(messages[1]).status = "raise"
    /\ Called

NextTransform == TransformOk \/ TransformSkip \/ TransformRaise

SpecTransform == InitTransform /\ [][NextTransform]_vars

(***************************************************************************)
(* One call of _transform_message on one ordinary record whose content is  *)
(* absent, a string or a list of at most MaxSpans spans, with and without  *)
(* a sticker glyph, by a known or an unknown author, with and without a    *)
(* mention map.  The spans: a literal string; every kind of the rule       *)
(* table and two kinds outside it, each with a text and with the empty     *)
(* text; user mentions by user_id (mapped, unmapped, missing); name        *)
(* mentions (mapped, unmapped, doubled "@", no "@"); dicts lacking "type"  *)
(* or "text"; a number.                                                    *)
(***************************************************************************)
MaxSpans == 2

UnsupportedKinds == {"unknown_format", "spoiler"}

KindSpans ==
    {[type |-> t, text |-> x] :
        t \in TEXT_TYPES_TO_CONVERT_TO_PLAIN_TEXT \cup DOMAIN format_map
               \cup {"pre", "blockquote"} \cup UnsupportedKinds,
        x \in {"x", ""}}

MentionNameSpans ==
    {[type |-> "mention_name", text |-> "Anna", user_id |-> 123],
     [type |-> "mention_name", text |-> "Anna", user_id |-> 999],
     [type |-> "mention_name", text |-> "Anna"]}

MentionSpans == {[type |-> "mention", text |-> t] : t \in {"@bob", "@eve", "@@bob", "bob"}}

MalformedSpans == {[text |-> "x"], [type |-> "bold"], [other |-> 5]}

Spans ==
    {[str |-> " says "]} \cup KindSpans \cup MentionNameSpans \cup MentionSpans
        \cup MalformedSpans

MentionMaps == {EmptyDict, [bob |-> "robert"]}   \* None and {} are both falsy

Glyph == ":-)"

TextRecord(author, content) ==
    [id |-> 123456, type |-> "message", date |-> 5001, from_id |-> author] @@ content

IsTextRecord(msgs) ==
    \E author \in {"user123", "unknown_user"} :
        \/ \E str \in {"none", "", "Test"}, sticker \in BOOLEAN :
              msgs = <<TextRecord(author, Opt("text", str # "none", str)
                                          @@ Opt("sticker_emoji", sticker, Glyph))>>
        \/ \E n \in 0..MaxSpans : \E text_elements \in [1..n -> Spans] :
              \E sticker \in IF n = 0 THEN BOOLEAN ELSE {FALSE} :
                msgs = <<TextRecord(author,
                                    [text |-> text_elements, text_is_list |-> TRUE]
                                    @@ Opt("sticker_emoji", sticker, Glyph))>>

InitText ==
    /\ chat_type = "post"
    /\ user_keys = MockUserKeys
    /\ depth = 0
    /\ timezone = "UTC"
    /\ mentions \in MentionMaps
    /\ IsTextRecord(messages)
    /\ pc = "record"
    /\ replies = EmptyDict
    /\ output_lines = <<>>
    /\ attachments = {}
    /\ transformed = NoCall
    /\ NoWalk

NextText == TransformOk \/ TransformSkip

SpecText == InitText /\ [][NextText]_vars

(***************************************************************************)
(* The thread-root walk _find_top_parent call by call, from any identifier *)
(* of 0..MaxId over any Reply Index on those identifiers.  Each call of    *)
(* the recursion returns what the call it makes returns, so the walk ends  *)
(* with the first call that returns.                                       *)
(***************************************************************************)
Ids == 0..MaxId

\* sys.getrecursionlimit() of the interpreter, never changed by the program
RecursionLimit == 1000

\* Frames in use when _find_top_parent is first called: the callers' frames
\* (four from the command line: the script, main, convert and
\* _build_reply_structure; fewer when the method is called directly)
CallerFrames == 1..MaxFrames

\* Lengths of the long reply chains: those next to the length at which the
\* walk runs out of stack, for every number of callers' frames
ChainLengths == (RecursionLimit - MaxFrames - 2)..(RecursionLimit - 1)

\* A message replying to its predecessor, n times over: the chain that ends
\* at the identifier n + 1 without a parent, and the cycle that closes on 1
LongChain(n) == [k \in 1..n |-> k + 1]
LongCycle(n) == [k \in 1..n |-> IF k = n THEN 1 ELSE k + 1]

\* The guard looking one hop ahead: the parent of id is already visited
ParentVisited(id, seen) ==
    id \in seen \/ (id \in DOMAIN reply_map /\ reply_map[id] \in seen \cup {id})

\* line 418: `if msg_id in visited`
AlreadyVisited(id, seen) == id \in seen

\* line 421: the call of visited.add needs a level of the interpreter's
\* stack beyond the frame of the walk
StackExhausted == depth >= RecursionLimit

\* The walk is at its first call: nothing visited, the callers' frames in use
WalkStarts ==
    /\ msg_id = walk_from
    /\ \E frames \in CallerFrames : depth = frames + 1
    /\ visited = {}
    /\ readded = FALSE
    /\ pc = "call"
    /\ chat_type = "post"
    /\ user_keys = MockUserKeys
    /\ timezone = "UTC"
    /\ mentions = EmptyDict
    /\ messages = <<>>
    /\ replies = EmptyDict
    /\ output_lines = <<>>
    /\ attachments = {}
    /\ transformed = NoCall

\* every Reply Index over the identifiers 0..MaxId, walked from any of them
InitWalk ==
    /\ \E keys \in SUBSET Ids : reply_map \in [keys -> Ids]
    /\ walk_from \in Ids
    /\ WalkStarts

\* the long chains and cycles, walked from their first identifier
InitDeepWalk ==
    /\ \E n \in ChainLengths : reply_map \in {LongChain(n), LongCycle(n)}
    /\ walk_from = 1
    /\ WalkStarts

\* lines 418-419
WalkCycle ==
    /\ pc = "call"
    /\ AlreadyVisited(msg_id, visited)
    /\ pc' = "returned"
    /\ UNCHANGED <<chat_type, user_keys, timezone, mentions,
                   messages, replies, output_lines, attachments,
                   transformed, reply_map, walk_from, msg_id, visited, readded,
                   depth>>

\* lines 421-424: the nested call takes one more frame
WalkHop ==
    /\ pc = "call"
    /\ ~AlreadyVisited(msg_id, visited)
    /\ ~StackExhausted
    /\ msg_id \in DOMAIN reply_map
    /\ visited' = visited \cup {msg_id}
    /\ readded' = (readded \/ msg_id \in visited)
    /\ msg_id' = reply_map[msg_id]
    /\ depth' = depth + 1
    /\ UNCHANGED <<chat_type, user_keys, timezone, mentions,
                   messages, pc, replies, output_lines, attachments,
                   transformed, reply_map, walk_from>>

\* lines 421-425
WalkTop ==
    /\ pc = "call"
    /\ ~AlreadyVisited(msg_id, visited)
    /\ ~StackExhausted
    /\ msg_id \notin DOMAIN reply_map
    /\ visited' = visited \cup {msg_id}
    /\ readded' = (readded \/ msg_id \in visited)
    /\ pc' = "returned"
    /\ UNCHANGED <<chat_type, user_keys, timezone, mentions,
                   messages, replies, output_lines, attachments,
                   transformed, reply_map, walk_from, msg_id, depth>>

\* line 421: RecursionError, which no caller up to main catches by name:
\* the walk returns nothing and the run ends
WalkRaise ==
    /\ pc = "call"
    /\ ~AlreadyVisited(msg_id, visited)
    /\ StackExhausted
    /\ pc' = "recursion_error"
    /\ UNCHANGED <<chat_type, user_keys, timezone, mentions,
                   messages, replies, output_lines, attachments,
                   transformed, reply_map, walk_from, msg_id, visited, readded,
                   depth>>

\* the calls of a walk that ends before the stack does
NextWalk == WalkCycle \/ WalkHop \/ WalkTop

\* the interpreter runs a call that is due: the walk is never suspended
SpecWalk == InitWalk /\ [][NextWalk]_vars /\ WF_vars(NextWalk)

NextDeepWalk == NextWalk \/ WalkRaise

SpecDeepWalk == InitDeepWalk /\ [][NextDeepWalk]_vars /\ WF_vars(NextDeepWalk)

(***************************************************************************)
(* Vocabulary of the properties.                                           *)
(***************************************************************************)
Positions == DOMAIN messages
Target(p) == messages[p].reply_to_message_id
Replies(p) == Has(messages[p], "reply_to_message_id")
IdsCarried == {messages[p].id : p \in {q \in Positions : Has(messages[q], "id")}}
Carrier(id) == CHOOSE p \in Positions : Has(messages[p], "id") /\ messages[p].id = id

\* an ordinary message: kind "message", known author, timestamp present
Ordinary(m) ==
    /\ Has(m, "type") /\ m.type = "message"
    /\ Has(m, "from_id") /\ m.from_id \in DOMAIN users
    /\ Has(m, "date")

AuthorUnknown(m) == Has(m, "from_id") /\ m.from_id \notin DOMAIN users

\* Where the parent chain from identifier t ends: at an identifier nobody
\* carries, at the identifier of a record that declares no reply target, or
\* (NoId) nowhere because the chain runs into a cycle.
RECURSIVE ChainEnd(_, _)
ChainEnd(t, fuel) ==
    IF t \notin IdsCarried THEN t
    ELSE IF ~Replies(Carrier(t)) THEN t
    ELSE IF fuel = 0 THEN NoId
    ELSE ChainEnd(Target(Carrier(t)), fuel - 1)

Dangling(p) ==
    /\ Replies(p)
    /\ ChainEnd(Target(p), Len(messages)) # NoId
    /\ ChainEnd(Target(p), Len(messages)) \notin IdsCarried

\* the records whose parent chain ends at the record at position r
Thread(r) ==
    {p \in Positions :
        /\ Replies(p) /\ ~Replies(r) /\ Has(messages[r], "id")
        /\ ChainEnd(Target(p), Len(messages)) = messages[r].id}

InOrder(S) == SelectSeq([k \in 1..Len(messages) |-> k], LAMBDA k : k \in S)
TextsAt(ps) == [k \in DOMAIN ps |-> messages[ps[k]].text]
Messages(envs) == [k \in DOMAIN envs |-> envs[k].message]

RootLines == Tail(output_lines)
RootTexts == [k \in DOMAIN RootLines |-> RootLines[k].content.message]
ReplyTexts ==
    UNION {{c.message : c \in Range(RootLines[k].content.replies)} :
           k \in {j \in DOMAIN RootLines : Has(RootLines[j].content, "replies")}}
InThreadMap(p) == \E key \in DOMAIN replies : messages[p] \in Range(replies[key])

MutualPair ==
    /\ Len(messages) = 2
    /\ \A p \in {1, 2} : Has(messages[p], "id") /\ Replies(p)
    /\ Target(1) = messages[2].id /\ Target(2) = messages[1].id

(***************************************************************************)
(* C1.  When _convert_messages returns, its list is the version line       *)
(* followed by one root envelope for each record that is no service        *)
(* record, declares no reply target and is not skipped by                  *)
(* _transform_message: each such record once, none missing, in list order. *)
(***************************************************************************)
EmittedAsRoot(m) ==
    ~IsService(m) /\ ~Has(m, "reply_to_message_id") /\ TransformMessage(m).status = "ok"

C1_RootsOnceInOrder ==
    pc = "done" =>
        /\ output_lines # <<>>
        /\ Head(output_lines) = VersionLine
        /\ RootTexts = TextsAt(InOrder({p \in Positions : EmittedAsRoot(messages[p])}))
        /\ \A k \in DOMAIN RootLines : RootLines[k].type \in {"post", "direct_post",
                                                             "direct_chat"}

C1_Witness ==
    /\ pc = "done"
    /\ Len(RootLines) = 2
    /\ Len(messages) = 3
    /\ \E p \in Positions : ~EmittedAsRoot(messages[p])

(***************************************************************************)
(* C2.  For every reply chain m0 <- m1 <- ... <- mN (N >= 1) of ordinary   *)
(* messages whose m0 declares no reply target, the output holds exactly    *)
(* one root envelope for m0, its replies list holds m1..mN in list order,  *)
(* and no entry of that list has a replies list itself.                    *)
(***************************************************************************)
ChainNested(r) ==
    \E k \in DOMAIN RootLines :
        /\ RootLines[k].content.message = messages[r].text
        /\ \A j \in DOMAIN RootLines :
              RootLines[j].content.message = messages[r].text => j = k
        /\ Has(RootLines[k].content, "replies")
        /\ Messages(RootLines[k].content.replies) = TextsAt(InOrder(Thread(r)))
        /\ \A c \in Range(RootLines[k].content.replies) : ~Has(c, "replies")

IsChain(r) ==
    /\ ~Replies(r)
    /\ Thread(r) # {}
    /\ \A p \in Thread(r) \cup {r} : Ordinary(messages[p])

C2_ChainNestedFlat ==
    pc = "done" => \A r \in Positions : IsChain(r) => ChainNested(r)

(***************************************************************************)
(* C3.  A record whose parent chain ends at an identifier that no record   *)
(* carries is emitted as a root envelope of its own, at its place among    *)
(* the roots: the roots of the output are the records that declare no      *)
(* reply target together with the dangling ones, in list order.            *)
(***************************************************************************)
Standalone(p) ==
    /\ ~IsService(messages[p])
    /\ TransformMessage(messages[p]).status = "ok"
    /\ (~Replies(p) \/ Dangling(p))

C3_DanglingBecomesRoot ==
    pc = "done" => RootTexts = TextsAt(InOrder({p \in Positions : Standalone(p)}))

(***************************************************************************)
(* C4.  For two ordinary messages that reply to each other the run ends    *)
(* and the output holds at least one root envelope after the version line. *)
(***************************************************************************)
C4_CycleGivesRoot ==
    (pc \in {"done", "raised"} /\ MutualPair /\ \A p \in Positions : Ordinary(messages[p]))
        => (pc = "done" /\ Len(output_lines) >= 2)

(***************************************************************************)
(* C5.  Over every finite Reply Index (self-replies, cycles of any length, *)
(* chains into a cycle, chains however long) the walk of _find_top_parent  *)
(* comes to its return, no identifier is added to the visited set a second *)
(* time, and what it returns is an identifier it visited.                  *)
(***************************************************************************)
C5_WalkTerminates ==
    /\ <>(pc = "returned")
    /\ [](~readded)
    /\ [](pc = "returned" => msg_id \in visited)

(***************************************************************************)
(* C6.  Every key of the Thread Map is the identifier of a record of the   *)
(* list, and a record whose parent chain ends at an identifier that no     *)
(* record carries is in no thread's list.                                  *)
(***************************************************************************)
C6_ThreadKeysExist ==
    pc # "loaded" =>
        /\ DOMAIN replies \subseteq IdsCarried
        /\ \A p \in Positions : Dangling(p) => ~InThreadMap(p)

C6_Witness ==
    /\ pc = "built"
    /\ replies # EmptyDict
    /\ \E p \in Positions : Dangling(p) /\ Target(p) \in IdsCarried

(***************************************************************************)
(* C7.  For two records that reply to each other _build_reply_structure    *)
(* returns a Thread Map that is not empty.                                 *)
(***************************************************************************)
C7_CycleThreadMapNonEmpty ==
    (pc # "loaded" /\ MutualPair) => (replies # EmptyDict /\ \E p \in Positions : InThreadMap(p))

C7_Witness == pc = "built" /\ MutualPair /\ InThreadMap(1)

(***************************************************************************)
(* C8.  As claimed: a record whose author is not in the identity map is    *)
(* nowhere in the output and in no list of the Thread Map.                 *)
(***************************************************************************)
C8_UnknownAuthorNowhere ==
    \A p \in Positions : AuthorUnknown(messages[p]) =>
        /\ pc = "done" => \A k \in DOMAIN RootTexts : RootTexts[k] # messages[p].text
        /\ pc = "done" => messages[p].text \notin ReplyTexts
        /\ ~InThreadMap(p)

(***************************************************************************)
(* C8 as amended.  A record whose author is not in the identity map is     *)
(* skipped without failing the run and is nowhere in the output, neither   *)
(* as a root envelope nor in a replies list (the Thread Map may list it).  *)
(***************************************************************************)
C8_UnknownAuthorOmitted ==
    /\ pc = "done" =>
          \A p \in Positions : AuthorUnknown(messages[p]) =>
              /\ \A k \in DOMAIN RootTexts : RootTexts[k] # messages[p].text
              /\ messages[p].text \notin ReplyTexts
    /\ pc = "raised" =>
          \E p \in Positions : ~AuthorUnknown(messages[p]) /\ ~Ordinary(messages[p])

\* an unknown author's reply that the Thread Map lists and the output omits
C8_Witness ==
    /\ pc = "done"
    /\ \E p \in Positions, k \in DOMAIN RootLines :
          /\ AuthorUnknown(messages[p]) /\ Has(messages[p], "type")
          /\ InThreadMap(p)
          /\ Has(RootLines[k].content, "replies")
          /\ RootLines[k].id = Target(p)
          /\ Len(RootLines[k].content.replies) = 1

(***************************************************************************)
(* C9.  A record whose kind tag has no entry in TG_TO_MM_TYPE is skipped   *)
(* by _transform_message, in direct mode and in channel mode alike.        *)
(***************************************************************************)
C9_UnmappedKindSkipped ==
    (/\ pc = "transformed"
     /\ Has(messages[1], "type")
     /\ messages[1].type \notin DOMAIN TG_TO_MM_TYPE)
        => transformed.status = "skip"

(***************************************************************************)
(* C10.  A record with a kind tag, a mapped kind and a known author but no *)
(* date makes _transform_message raise: the call gives neither an envelope *)
(* nor a skip.                                                             *)
(***************************************************************************)
DatelessOnly(m) ==
    /\ Has(m, "type") /\ m.type \in DOMAIN TG_TO_MM_TYPE
    /\ Has(m, "from_id") /\ m.from_id \in DOMAIN users
    /\ ~Has(m, "date")

C10_MissingDateRaises ==
    (pc = "transformed" /\ DatelessOnly(messages[1]))
        => (transformed.status = "raise" /\ ~Has(transformed, "env"))

C10_Witness ==
    /\ pc = "transformed"
    /\ DatelessOnly(messages[1])
    /\ Has(messages[1], "photo")
    /\ transformed.status = "raise"

(***************************************************************************)
(* C11.  Whenever _transform_message returns an envelope, every file or    *)
(* photo path of the record, except a file whose media kind is sticker, is *)
(* both in the envelope's attachments list and in the Attachment Set; a    *)
(* sticker file path is in neither.                                        *)
(***************************************************************************)
ListedPaths(content) ==
    IF Has(content, "attachments")
    THEN {content.attachments[k].path : k \in DOMAIN content.attachments}
    ELSE {}

StickerFile(m) ==
    Has(m, "file") /\ Has(m, "media_type") /\ m.media_type = "sticker"

C11_PathsListedAndCollected ==
    (pc = "transformed" /\ transformed.status = "ok") =>
        LET m == messages[1]
            listed == ListedPaths(transformed.env.content)
        IN /\ Has(m, "photo") => (m.photo \in listed /\ m.photo \in attachments)
           /\ (Has(m, "file") /\ ~StickerFile(m)) =>
                 (m.file \in listed /\ m.file \in attachments)
           /\ StickerFile(m) => (m.file \notin listed /\ m.file \notin attachments)

C11_Witness ==
    /\ pc = "transformed"
    /\ transformed.status = "ok"
    /\ StickerFile(messages[1])
    /\ Has(messages[1], "photo")
    /\ attachments = {messages[1].photo}

(***************************************************************************)
(* C12.  Converting a root that carries one photo together with a nested   *)
(* reply that carries one file leaves the Attachment Set with exactly      *)
(* those two paths; the root envelope's attachments list holds only the    *)
(* photo and the reply's attachments list holds only the file.             *)
(***************************************************************************)
OnlyPhoto(m) == Has(m, "photo") /\ ~Has(m, "file")
OnlyFile(m) == Has(m, "file") /\ ~StickerFile(m) /\ ~Has(m, "photo")

Descriptors(content) ==
    IF Has(content, "attachments") THEN content.attachments ELSE <<>>

PhotoRootFileReply(r, p) ==
    /\ ~Replies(r) /\ Thread(r) = {p}
    /\ OnlyPhoto(messages[r]) /\ OnlyFile(messages[p])

C12_OwnAttachmentsOnly ==
    pc = "done" =>
        \A r, p \in Positions :
            PhotoRootFileReply(r, p) =>
                /\ \E k \in DOMAIN RootLines :
                      /\ RootLines[k].content.message = messages[r].text
                      /\ Descriptors(RootLines[k].content) = <<[path |-> messages[r].photo]>>
                      /\ Has(RootLines[k].content, "replies")
                      /\ Len(RootLines[k].content.replies) = 1
                      /\ RootLines[k].content.replies[1].message = messages[p].text
                      /\ Descriptors(RootLines[k].content.replies[1])
                            = <<[path |-> messages[p].file]>>
                /\ Len(messages) = 2 =>
                      /\ attachments = {messages[r].photo, messages[p].file}
                      /\ Cardinality(attachments) = 2

C12_Witness ==
    /\ pc = "done"
    /\ Len(messages) = 2
    /\ PhotoRootFileReply(1, 2)
    /\ Len(RootLines) = 1
    /\ Cardinality(attachments) = 2

(***************************************************************************)
(* C13.  No entry of a root envelope's replies list carries destination    *)
(* metadata: no channel, no team and no channel_members, in channel mode   *)
(* and in direct mode alike.                                               *)
(***************************************************************************)
DestinationKeys == {"channel", "team", "channel_members"}

C13_RepliesCarryNoDestination ==
    pc = "done" =>
        \A k \in DOMAIN RootLines :
            Has(RootLines[k].content, "replies") =>
                \A c \in Range(RootLines[k].content.replies) :
                    DOMAIN c \cap DestinationKeys = {}

(***************************************************************************)
(* C14.  When a descendant in a root's thread hits a skip condition (no    *)
(* kind tag, unmapped kind, unknown author), the descendant is left out of *)
(* the replies list and the root envelope is still emitted, with the       *)
(* remaining descendants of the thread in list order.                      *)
(***************************************************************************)
SkipCondition(m) ==
    \/ ~Has(m, "type")
    \/ m.type \notin DOMAIN TG_TO_MM_TYPE
    \/ AuthorUnknown(m)

RootWithRemaining(r) ==
    \E k \in DOMAIN RootLines :
        /\ RootLines[k].content.message = messages[r].text
        /\ Has(RootLines[k].content, "replies")
        /\ Messages(RootLines[k].content.replies)
             = TextsAt(InOrder({p \in Thread(r) : ~SkipCondition(messages[p])}))

C14_SkippedDescendantLeftOut ==
    pc = "done" =>
        \A r \in Positions :
            (/\ ~Replies(r) /\ Ordinary(messages[r])
             /\ \E p \in Thread(r) : SkipCondition(messages[p]))
                => RootWithRemaining(r)

(***************************************************************************)
(* Vocabulary of the span properties: the text an emitted envelope of a    *)
(* record with a span list carries, and the concatenation of what a        *)
(* fragment rule gives for each span.                                      *)
(***************************************************************************)
Rendered == transformed.env.content.message

SpansRendered ==
    /\ pc = "transformed" /\ transformed.status = "ok"
    /\ IsList(messages[1])

RECURSIVE Concat(_, _)
Concat(Fragment(_), elems) ==
    IF elems = <<>> THEN ""
    ELSE Fragment(Head(elems)) \o Concat(Fragment, Tail(elems))

WellFormed(elem) == ~IsStr(elem) /\ IsDict(elem) /\ Has(elem, "type") /\ Has(elem, "text")
OfKind(elem, kinds) == WellFormed(elem) /\ elem.type \in kinds

\* what a span renders to on its own
Alone(elem) == TransformText(<<elem>>)

(***************************************************************************)
(* C15.  The rendered text of a span list is the concatenation, in list    *)
(* order, of the fragments of its spans, where a literal string and a span *)
(* of a plain kind give the text unchanged, code gives the text between    *)
(* grave accents, bold **text**, italic _text_, underline **_text_**,      *)
(* strikethrough ~~text~~, pre a fenced block and blockquote a "> text"    *)
(* line, each with a newline before and after.                             *)
(***************************************************************************)
PlainKinds ==
    {"link", "bot_command", "email", "text_link", "phone", "hashtag", "cashtag",
     "bank_card"}

TableKinds ==
    PlainKinds \cup {"code", "bold", "italic", "underline", "strikethrough", "pre",
                     "blockquote"}

Fence == Backtick \o Backtick \o Backtick

RuleTable(elem) ==
    IF IsStr(elem) THEN elem.str
    ELSE IF ~OfKind(elem, TableKinds) THEN Alone(elem)
    ELSE CASE elem.type \in PlainKinds -> elem.text
           [] elem.type = "code" -> Backtick \o elem.text \o Backtick
           [] elem.type = "bold" -> "**" \o elem.text \o "**"
           [] elem.type = "italic" -> "_" \o elem.text \o "_"
           [] elem.type = "underline" -> "**_" \o elem.text \o "_**"
           [] elem.type = "strikethrough" -> "~~" \o elem.text \o "~~"
           [] elem.type = "pre" -> "\n" \o Fence \o "\n" \o elem.text \o "\n" \o Fence \o "\n"
           [] elem.type = "blockquote" -> "\n> " \o elem.text \o "\n"

C15_RenderedIsConcatenation ==
    SpansRendered => Rendered = Concat(RuleTable, messages[1].text)

C15_Witness ==
    /\ SpansRendered
    /\ Len(messages[1].text) = 2
    /\ OfKind(messages[1].text[1], {"pre"})
    /\ OfKind(messages[1].text[2], {"italic"})
    /\ Rendered = "\n" \o Fence \o "\nx\n" \o Fence \o "\n_x_"

(***************************************************************************)
(* C16.  A mention_name span with user_id u renders as "@" followed by the *)
(* mapped username when "user<u>" is in the identity map and contributes   *)
(* nothing when it is not; either way the record is emitted exactly when   *)
(* its own author is in the identity map.                                  *)
(***************************************************************************)
UserMention(elem) == OfKind(elem, {"mention_name"}) /\ Has(elem, "user_id")
UserKey(elem) == "user" \o ToString(elem.user_id)

UserMentionRule(elem) ==
    IF ~IsStr(elem) /\ UserMention(elem)
    THEN IF UserKey(elem) \in DOMAIN users THEN "@" \o users[UserKey(elem)] ELSE ""
    ELSE Alone(elem)

HasSpan(Kind(_)) ==
    /\ IsList(messages[1])
    /\ \E k \in DOMAIN messages[1].text :
          ~IsStr(messages[1].text[k]) /\ Kind(messages[1].text[k])

C16_UserMentionMappedOrDropped ==
    (pc = "transformed" /\ HasSpan(UserMention)) =>
        /\ transformed.status = "ok" <=> messages[1].from_id \in DOMAIN users
        /\ transformed.status = "ok" =>
              Rendered = Concat(UserMentionRule, messages[1].text)

UnmappedUserMention(elem) == UserMention(elem) /\ UserKey(elem) \notin DOMAIN users
MappedUserMention(elem) == UserMention(elem) /\ UserKey(elem) \in DOMAIN users

C16_Witness ==
    /\ SpansRendered
    /\ Len(messages[1].text) = 2
    /\ MappedUserMention(messages[1].text[1])
    /\ UnmappedUserMention(messages[1].text[2])
    /\ Rendered = "@abc"

(***************************************************************************)
(* C17.  A mention span renders as "@" followed by the mapped name when a  *)
(* mention map is configured and the span's text without its leading "@"   *)
(* is a key of it; when the map has no such key, or no map is configured,  *)
(* it renders as the span's text unchanged.                                *)
(***************************************************************************)
NameMention(elem) == OfKind(elem, {"mention"})

\* the text from its first character that is no "@"
WithoutLeadingAt(text) ==
    LET first == CHOOSE j \in 1..(Len(text) + 1) :
                    /\ \A i \in 1..(j - 1) : SubSeq(text, i, i) = "@"
                    /\ j <= Len(text) => SubSeq(text, j, j) # "@"
    IN SubSeq(text, first, Len(text))

NameMentionRule(elem) ==
    IF ~IsStr(elem) /\ NameMention(elem)
    THEN IF mentions # EmptyDict /\ WithoutLeadingAt(elem.text) \in DOMAIN mentions
         THEN "@" \o mentions[WithoutLeadingAt(elem.text)]
         ELSE elem.text
    ELSE Alone(elem)

C17_NameMentionMappedOrKept ==
    (SpansRendered /\ HasSpan(NameMention)) =>
        Rendered = Concat(NameMentionRule, messages[1].text)

C17_Witness ==
    /\ SpansRendered
    /\ mentions # EmptyDict
    /\ Len(messages[1].text) = 2
    /\ NameMention(messages[1].text[1]) /\ messages[1].text[1].text = "@bob"
    /\ NameMention(messages[1].text[2]) /\ messages[1].text[2].text = "@eve"
    /\ Rendered = "@robert@eve"

(***************************************************************************)
(* C18.  A span that is malformed (no string and lacking its kind or its   *)
(* text, or a mention_name lacking user_id) or of an unsupported kind      *)
(* contributes the empty text and raises nothing out of _transform_text:   *)
(* the record is emitted as if the span list held the other spans only,    *)
(* in their order.                                                         *)
(***************************************************************************)
SupportedKinds == TableKinds \cup {"mention_name", "mention"}

Malformed(elem) ==
    \/ ~WellFormed(elem)
    \/ OfKind(elem, {"mention_name"}) /\ ~Has(elem, "user_id")

Unsupported(elem) == WellFormed(elem) /\ elem.type \notin SupportedKinds

Contributing(elem) == IsStr(elem) \/ (~Malformed(elem) /\ ~Unsupported(elem))

Dropped(elem) == ~Contributing(elem)

C18_BadSpanContributesNothing ==
    (pc = "transformed" /\ HasSpan(Dropped) /\ messages[1].from_id \in DOMAIN users) =>
        /\ transformed.status = "ok"
        /\ Rendered = TransformText(SelectSeq(messages[1].text, Contributing))
        /\ \A k \in DOMAIN messages[1].text :
              Dropped(messages[1].text[k]) => Alone(messages[1].text[k]) = ""

C18_Witness ==
    /\ SpansRendered
    /\ Len(messages[1].text) = 2
    /\ OfKind(messages[1].text[1], {"mention_name"}) /\ Malformed(messages[1].text[1])
    /\ OfKind(messages[1].text[2], {"bold"}) /\ messages[1].text[2].text = "x"
    /\ Rendered = "**x**"

(***************************************************************************)
(* C19.  A record whose content is the empty string and that carries a     *)
(* sticker glyph has that glyph as its rendered text; a record whose       *)
(* content is a non-empty string has exactly that string.                  *)
(***************************************************************************)
StringContent(m) == ~IsList(m) /\ Has(m, "text")

C19_GlyphOnlyForEmptyContent ==
    (pc = "transformed" /\ transformed.status = "ok" /\ StringContent(messages[1])) =>
        /\ (messages[1].text = "" /\ Has(messages[1], "sticker_emoji"))
              => Rendered = messages[1].sticker_emoji
        /\ messages[1].text # "" => Rendered = messages[1].text

C19_Witness ==
    /\ pc = "transformed" /\ transformed.status = "ok"
    /\ StringContent(messages[1])
    /\ messages[1].text = "" /\ Has(messages[1], "sticker_emoji")
    /\ Rendered = Glyph

(***************************************************************************)
(* C20.  An envelope's creation epoch is the record's naive local          *)
(* timestamp read in the configured zone, in whole milliseconds: the local *)
(* seconds minus the zone's offset, times 1000, so a zone one hour east of *)
(* UTC gives a value 3600000 smaller than UTC does.  Its edit epoch is 0   *)
(* exactly when the record has no edit timestamp, and the edit timestamp   *)
(* converted the same way otherwise.  "Europe/Busingen" keeps standard     *)
(* time, one hour east of UTC, at every timestamp of Records.              *)
(***************************************************************************)
HourEast == timezone = "Europe/Busingen"
Millis(local) == IF HourEast THEN local * 1000 - 3600000 ELSE local * 1000

MappedUsernames == {users[k] : k \in DOMAIN users}

C21_OneKindOfDestination ==
    (pc = "transformed" /\ transformed.status = "ok") =>
        LET content == transformed.env.content IN
        IF chat_type = "direct_chat"
        THEN /\ transformed.env.type = "direct_post"
             /\ Has(content, "channel_members")
             /\ Range(content.channel_members) = MappedUsernames
             /\ Len(content.channel_members) = Cardinality(MappedUsernames)
             /\ ~Has(content, "channel") /\ ~Has(content, "team")
        ELSE /\ Has(content, "channel") /\ content.channel = import_into.channel
             /\ Has(content, "team") /\ content.team = import_into.team
             /\ ~Has(content, "channel_members")

C21_Witness ==
    /\ pc = "transformed" /\ transformed.status = "ok"
    /\ chat_type = "direct_chat"
    /\ messages[1].type = "unknown_type"
    /\ user_keys = <<"user456", "user123", "user789">>
    /\ transformed.env.content.channel_members = <<"def", "abc", "ghi">>

(***************************************************************************)
(* C22.  In the thread-root walk, when the parent of the current           *)
(* identifier is already in the visited set, the walk stops and returns    *)
(* the current identifier (the last one newly visited), not the            *)
(* already-visited parent.                                                 *)
(***************************************************************************)
\* the identifier the walk from walk_from stands on after k hops
RECURSIVE Hop(_)
Hop(k) == IF k = 0 THEN walk_from ELSE reply_map[Hop(k - 1)]

\* the walk returned out of a cycle: the identifier returned has a parent
CycleReturn == pc = "returned" /\ msg_id \in DOMAIN reply_map

\* the number of hops after which the walk first stands on an identifier again
FirstRepeat ==
    CHOOSE n \in 1..(MaxId + 1) :
        /\ \E i \in 0..(n - 1) : Hop(i) = Hop(n)
        /\ \A m \in 1..(n - 1) : \A i \in 0..(m - 1) : Hop(i) # Hop(m)

C22_ReturnsLastNewlyVisited ==
    CycleReturn => msg_id = Hop(FirstRepeat - 1)

\* C22 as the code has it: the walk returns the identifier it meets for the
\* second time, the already-visited parent of the last one newly visited.
C22_ReturnsRevisitedParent ==
    CycleReturn =>
        /\ msg_id = Hop(FirstRepeat)
        /\ reply_map[Hop(FirstRepeat - 1)] = msg_id
        /\ visited = {Hop(i) : i \in 0..(FirstRepeat - 1)}

C22_Witness ==
    /\ CycleReturn
    /\ Cardinality(visited) = 3
    /\ msg_id # walk_from
    /\ msg_id # Hop(FirstRepeat - 1)

(***************************************************************************)
(* C23.  In the Thread Map _build_reply_structure returns, every message   *)
(* occurs in at most one thread's list and at most once in it, and every   *)
(* list keeps its messages in archive order, also when a reply precedes    *)
(* its root in the archive.                                                *)
(***************************************************************************)
Occurrences(p) ==
    UNION {{<<key, i>> : i \in {j \in DOMAIN replies[key] : replies[key][j] = messages[p]}} :
           key \in DOMAIN replies}

PositionOf(m) == CHOOSE p \in Positions : messages[p] = m

InArchiveOrder(list) ==
    /\ \A i \in DOMAIN list : list[i] \in Range(messages)
    /\ \A i, j \in DOMAIN list : i < j => PositionOf(list[i]) < PositionOf(list[j])

C23_OneThreadInOrder ==
    pc # "loaded" =>
        /\ \A p \in Positions : Cardinality(Occurrences(p)) <= 1
        /\ \A key \in DOMAIN replies : InArchiveOrder(replies[key])

C23_Witness ==
    /\ pc = "built"
    /\ Len(messages) = 3
    /\ Replies(1) /\ ~Replies(2) /\ Replies(3)
    /\ Has(messages[2], "id") /\ messages[2].id \in DOMAIN replies
    /\ replies[messages[2].id] = <<messages[1], messages[3]>>

(***************************************************************************)
(* C24.  If a non-service message of the list passes the skip conditions   *)
(* but has no timestamp, _convert_messages raises and returns no output    *)
(* line, whether the message is a root or a reply and wherever it stands   *)
(* relative to its root.                                                   *)
(***************************************************************************)
SomeDateless == \E p \in Positions : DatelessOnly(messages[p])

C24_DatelessAbortsRun ==
    (pc \in {"done", "raised"} /\ SomeDateless) =>
        (pc = "raised" /\ output_lines = <<>>)

C24_Witness ==
    /\ pc = "raised"
    /\ output_lines = <<>>
    /\ Len(messages) = 2
    /\ DatelessOnly(messages[1]) /\ Replies(1) /\ Target(1) = messages[2].id
    /\ ~Replies(2)

(***************************************************************************)
(* C25.  No message is silently lost: every non-service message that       *)
(* passes the skip conditions of _transform_message appears in the output  *)
(* at least once, as a root envelope or as an entry of a replies list,     *)
(* for every list, also with dangling replies, reply cycles and skipped    *)
(* roots.                                                                  *)
(***************************************************************************)
PassesSkipConditions(m) ==
    ~IsService(m) /\ ~SkipCondition(m) /\ Has(m, "from_id") /\ Has(m, "date")

InOutput(m) ==
    \/ \E k \in DOMAIN RootTexts : RootTexts[k] = m.text
    \/ m.text \in ReplyTexts

C25_NoMessageLost ==
    pc = "done" =>
        \A p \in Positions : PassesSkipConditions(messages[p]) => InOutput(messages[p])

(***************************************************************************)
(* C26.  After a conversion pass every path of the Attachment Set is in    *)
(* the attachments list of some emitted root envelope or of some nested    *)
(* reply of the output: the set holds no path of a message that is absent  *)
(* from the output.                                                        *)
(***************************************************************************)
OutputPaths ==
    UNION {ListedPaths(RootLines[k].content)
             \cup (IF Has(RootLines[k].content, "replies")
                   THEN UNION {ListedPaths(c) : c \in Range(RootLines[k].content.replies)}
                   ELSE {}) :
           k \in DOMAIN RootLines}

C26_SetOnlyHoldsEmittedPaths ==
    pc = "done" => attachments \subseteq OutputPaths

(***************************************************************************)
(* C27.  Every key of the Thread Map is the identifier of a message that   *)
(* itself declares no reply target, so every thread of the map hangs on a  *)
(* record the output scan can emit as a root.                              *)
(***************************************************************************)
C27_ThreadKeysAreRoots ==
    pc # "loaded" =>
        \A key \in DOMAIN replies :
            \E p \in Positions :
                Has(messages[p], "id") /\ messages[p].id = key /\ ~Replies(p)

(***************************************************************************)
(* C28.  A root receives the replies of its Thread Map entry whatever      *)
(* integer identifier it carries, 0 included: whenever the identifier of   *)
(* an emitted root is a key of the Thread Map, its envelope has a replies  *)
(* list built from that entry.                                             *)
(***************************************************************************)
C28_RootOfAnyIdGetsReplies ==
    pc = "done" =>
        \A k \in DOMAIN RootLines :
            (RootLines[k].id # NoId /\ RootLines[k].id \in DOMAIN replies) =>
                /\ Has(RootLines[k].content, "replies")
                /\ \A c \in Range(RootLines[k].content.replies) :
                      \E m \in Range(replies[RootLines[k].id]) : c.message = m.text

(***************************************************************************)
(* C29.  No service record appears anywhere in the output, neither as a    *)
(* root envelope nor as an entry of a replies list, in direct mode and in  *)
(* channel mode alike, also when it declares a reply target that resolves  *)
(* to an emitted root.                                                     *)
(***************************************************************************)
C29_NoServiceRecordInOutput ==
    pc = "done" =>
        \A p \in Positions : IsService(messages[p]) => ~InOutput(messages[p])

(***************************************************************************)
(* C30.  A call of _transform_message that returns a skip (no kind tag,    *)
(* unmapped kind, unknown author) or fails on a missing key leaves the     *)
(* Attachment Set as it was, also when the record carries a file or a      *)
(* photo.                                                                  *)
(***************************************************************************)
NoEnvelope == pc = "transformed" /\ transformed.status \in {"skip", "raise"}

C30_SkipLeavesSetUnchanged ==
    [][NoEnvelope' => attachments' = attachments]_vars

C30_Witness ==
    /\ NoEnvelope
    /\ transformed.status = "skip"
    /\ Has(messages[1], "photo") /\ Has(messages[1], "file") /\ ~StickerFile(messages[1])
    /\ attachments = {"files/earlier.pdf"}
====
